---- MODULE Spec2Model ----
(***************************************************************************)
(* Model of src/msub.py: mergeSub(type, inputvideo, sub, output,           *)
(* progress_callback).  Strings are sequences of one-character strings so  *)
(* that str.replace, the "in" tests and the three regular expressions are  *)
(* computed on the text.  A float is kept as the exact value               *)
(* num/den * 10^exp; the one float rounding that changes a result, that of *)
(* the sum inside eta % 60, is modelled in IntMod.                         *)
(***************************************************************************)
EXTENDS Integers, Sequences, FiniteSets, TLC

\* ------------------------------------------------------------------ bounds
\* Lines the external process writes to its diagnostic stream in one job.
MaxLines == 3
\* Segments an output path is built from in the planner-only specification.
MaxSegs == 3
\* Largest exit code of the external process (0 is success).
MaxExitCode == 1
\* Lines the pipe between the process and mergeSub holds; the process blocks
\* on a full pipe.
PipeCapacity == 1

\* ------------------------------------------------------------ string tools
Digits == {"0", "1", "2", "3", "4", "5", "6", "7", "8", "9"}

DigitVal(c) ==
    CASE c = "0" -> 0 [] c = "1" -> 1 [] c = "2" -> 2 [] c = "3" -> 3
      [] c = "4" -> 4 [] c = "5" -> 5 [] c = "6" -> 6 [] c = "7" -> 7
      [] c = "8" -> 8 [] c = "9" -> 9

DigitChar(d) ==
    CASE d = 0 -> "0" [] d = 1 -> "1" [] d = 2 -> "2" [] d = 3 -> "3"
      [] d = 4 -> "4" [] d = 5 -> "5" [] d = 6 -> "6" [] d = 7 -> "7"
      [] d = 8 -> "8" [] d = 9 -> "9"

SetMax(S) == CHOOSE x \in S : \A y \in S : y <= x
SetMin(S) == CHOOSE x \in S : \A y \in S : x <= y

\* s[i], or "" past either end of s.
CharAt(s, i) == IF i >= 1 /\ i <= Len(s) THEN s[i] ELSE ""

\* pat occurs in s starting at position i.
StartsAt(s, i, pat) ==
    /\ i >= 1
    /\ i + Len(pat) - 1 <= Len(s)
    /\ SubSeq(s, i, i + Len(pat) - 1) = pat

\* Python: pat in s
Contains(s, pat) == \E i \in 1..Len(s) : StartsAt(s, i, pat)

\* Python: s.endswith(pat)
EndsWith(s, pat) == StartsAt(s, Len(s) - Len(pat) + 1, pat)

\* Python: s.replace(old, new), every non-overlapping occurrence, left to right.
RECURSIVE Replace(_, _, _)
Replace(s, old, new) ==
    IF Len(s) < Len(old) THEN s
    ELSE IF StartsAt(s, 1, old)
         THEN new \o Replace(SubSeq(s, Len(old) + 1, Len(s)), old, new)
         ELSE <<Head(s)>> \o Replace(Tail(s), old, new)

\* Length of the longest run of characters of class cls in s from position p.
RECURSIVE RunLen(_, _, _)
RunLen(s, p, cls) ==
    IF CharAt(s, p) \in cls THEN 1 + RunLen(s, p + 1, cls) ELSE 0

\* Value of a sequence of decimal digits.
RECURSIVE DigitsValue(_)
DigitsValue(ds) ==
    IF ds = <<>> THEN 0
    ELSE 10 * DigitsValue(SubSeq(ds, 1, Len(ds) - 1)) + DigitVal(ds[Len(ds)])

\* Python: str(n) for an integer n.
RECURSIVE NatStr(_)
NatStr(n) == IF n < 10 THEN <<DigitChar(n)>>
             ELSE NatStr(n \div 10) \o <<DigitChar(n % 10)>>

IntStr(n) == IF n < 0 THEN <<"-">> \o NatStr(0 - n) ELSE NatStr(n)

\* ------------------------------------------------------------------ planner
DotMp4 == <<".", "m", "p", "4">>
DotMkv == <<".", "m", "k", "v">>

\* "subtitles=" and "scale=1280:-2,subtitles=", the prefixes of the -vf filters.
SubtitlesFilter(sub) ==
    <<"s", "u", "b", "t", "i", "t", "l", "e", "s", "=">> \o sub

ScaledSubtitlesFilter(sub) ==
    <<"s", "c", "a", "l", "e", "=", "1", "2", "8", "0", ":", "-", "2", ",", "s", "u", "b", "t", "i", "t", "l", "e", "s", "=">>
      \o sub

\* Type 1: the output name used, output.replace(".mp4", ".mkv").
MkvOutput(output) == Replace(output, DotMp4, DotMkv)

\* Type 1: ffmpeg -i inputvideo -i sub -map 0 -map 1 -c copy output
CommandMux(inputvideo, sub, output) ==
    <<<<"f", "f", "m", "p", "e", "g">>,
      <<"-", "i">>,
      inputvideo,
      <<"-", "i">>,
      sub,
      <<"-", "m", "a", "p">>,
      <<"0">>,
      <<"-", "m", "a", "p">>,
      <<"1">>,
      <<"-", "c">>,
      <<"c", "o", "p", "y">>,
      output>>

\* Type 2: ffmpeg -i inputvideo -i sub -c:v copy -c:a copy -c:s mov_text output
CommandMuxMp4(inputvideo, sub, output) ==
    <<<<"f", "f", "m", "p", "e", "g">>,
      <<"-", "i">>,
      inputvideo,
      <<"-", "i">>,
      sub,
      <<"-", "c", ":", "v">>,
      <<"c", "o", "p", "y">>,
      <<"-", "c", ":", "a">>,
      <<"c", "o", "p", "y">>,
      <<"-", "c", ":", "s">>,
      <<"m", "o", "v", "_", "t", "e", "x", "t">>,
      output>>

\* Type 3: ffmpeg -i inputvideo -vf subtitles={sub} -c:v libx264 -preset ultrafast -c:a copy output
CommandBurnIn(inputvideo, sub, output) ==
    <<<<"f", "f", "m", "p", "e", "g">>,
      <<"-", "i">>,
      inputvideo,
      <<"-", "v", "f">>,
      SubtitlesFilter(sub),
      <<"-", "c", ":", "v">>,
      <<"l", "i", "b", "x", "2", "6", "4">>,
      <<"-", "p", "r", "e", "s", "e", "t">>,
      <<"u", "l", "t", "r", "a", "f", "a", "s", "t">>,
      <<"-", "c", ":", "a">>,
      <<"c", "o", "p", "y">>,
      output>>

\* Type 4: ffmpeg -hwaccel cuda -i inputvideo -vf subtitles={sub} -c:v h264_nvenc -preset fast -b:v 2M -c:a copy output
CommandBurnInGpu(inputvideo, sub, output) ==
    <<<<"f", "f", "m", "p", "e", "g">>,
      <<"-", "h", "w", "a", "c", "c", "e", "l">>,
      <<"c", "u", "d", "a">>,
      <<"-", "i">>,
      inputvideo,
      <<"-", "v", "f">>,
      SubtitlesFilter(sub),
      <<"-", "c", ":", "v">>,
      <<"h", "2", "6", "4", "_", "n", "v", "e", "n", "c">>,
      <<"-", "p", "r", "e", "s", "e", "t">>,
      <<"f", "a", "s", "t">>,
      <<"-", "b", ":", "v">>,
      <<"2", "M">>,
      <<"-", "c", ":", "a">>,
      <<"c", "o", "p", "y">>,
      output>>

\* Type 5: ffmpeg -i inputvideo -vf scale=1280:-2,subtitles={sub} -c:v libx264 -preset ultrafast -c:a copy output
CommandBurnInLow(inputvideo, sub, output) ==
    <<<<"f", "f", "m", "p", "e", "g">>,
      <<"-", "i">>,
      inputvideo,
      <<"-", "v", "f">>,
      ScaledSubtitlesFilter(sub),
      <<"-", "c", ":", "v">>,
      <<"l", "i", "b", "x", "2", "6", "4">>,
      <<"-", "p", "r", "e", "s", "e", "t">>,
      <<"u", "l", "t", "r", "a", "f", "a", "s", "t">>,
      <<"-", "c", ":", "a">>,
      <<"c", "o", "p", "y">>,
      output>>

ValidTypes == 1..5

\* The .mkv rewrite applied in every mode.
OutputForAnyType(type, output) == MkvOutput(output)

\* The output name after the branch for type: only type 1 rewrites it.
OutputFor(type, output) == IF type = 1 THEN MkvOutput(output) ELSE output

\* The if/elif chain on type; defined for the five valid types.  output is
\* the output name after the branch's rewrite.
Command(type, inputvideo, sub, output) ==
    CASE type = 1 -> CommandMux(inputvideo, sub, output)
      [] type = 2 -> CommandMuxMp4(inputvideo, sub, output)
      [] type = 3 -> CommandBurnIn(inputvideo, sub, output)
      [] type = 4 -> CommandBurnInGpu(inputvideo, sub, output)
      [] type = 5 -> CommandBurnInLow(inputvideo, sub, output)

\* ------------------------------------------------------------------ numbers
None == <<>>
Some(v) == <<v>>

\* The outcome of an expression that may raise: its value, or the exception.
Ok(v) == [ok |-> TRUE, val |-> v, err |-> "none"]
Raise(e, v) == [ok |-> FALSE, val |-> v, err |-> e]

RECURSIVE GCD(_, _)
GCD(a, b) == IF b = 0 THEN a ELSE GCD(b, a % b)

Abs(n) == IF n < 0 THEN 0 - n ELSE n

RECURSIVE Pow10(_)
Pow10(n) == IF n = 0 THEN 1 ELSE 10 * Pow10(n - 1)

\* A float value, kept exactly as num/den * 10^exp.  Norm gives the one
\* record of a value: num/den in lowest terms, den positive and without a
\* factor 2 or 5, num not a multiple of 10 (zero is 0/1 * 10^0).
RECURSIVE Norm(_, _, _)
Norm(n, d, e) ==
    IF n = 0 THEN [num |-> 0, den |-> 1, exp |-> 0]
    ELSE IF d < 0 THEN Norm(0 - n, 0 - d, e)
    ELSE IF GCD(Abs(n), d) > 1
    THEN Norm(n \div GCD(Abs(n), d), d \div GCD(Abs(n), d), e)
    ELSE IF d % 2 = 0 THEN Norm(n * 5, d \div 2, e - 1)
    ELSE IF d % 5 = 0 THEN Norm(n * 2, d \div 5, e - 1)
    ELSE IF n % 10 = 0 THEN Norm(n \div 10, d, e + 1)
    ELSE [num |-> n, den |-> d, exp |-> e]

Q(n, d) == Norm(n, d, 0)
QInt(n) == Norm(n, 1, 0)

QAdd(x, y) ==
    IF x.num = 0 THEN y
    ELSE IF y.num = 0 THEN x
    ELSE LET e == IF x.exp < y.exp THEN x.exp ELSE y.exp
             a == x.num * Pow10(x.exp - e)
             b == y.num * Pow10(y.exp - e)
         IN  Norm(a * y.den + b * x.den, x.den * y.den, e)

QNeg(x) == [x EXCEPT !.num = 0 - x.num]
QSub(x, y) == QAdd(x, QNeg(y))
QMul(x, y) == Norm(x.num * y.num, x.den * y.den, x.exp + y.exp)
QDiv(x, y) == Norm(x.num * y.den, x.den * y.num, x.exp - y.exp)

\* Python: math.floor(x).  num is below 10^10, so a value with exp below -9
\* lies strictly between -1 and 1.
Floor(x) ==
    IF x.exp >= 0 THEN (x.num * Pow10(x.exp)) \div x.den
    ELSE IF x.exp < 0 - 9 THEN (IF x.num < 0 THEN 0 - 1 ELSE 0)
    ELSE x.num \div (x.den * Pow10(0 - x.exp))

\* The number of "0" characters that end ds.
RECURSIVE TrailingZeros(_)
TrailingZeros(ds) ==
    IF ds # <<>> /\ ds[Len(ds)] = "0"
    THEN 1 + TrailingZeros(SubSeq(ds, 1, Len(ds) - 1))
    ELSE 0

\* Python: float(text) for text made of digits and dots.  It raises
\* ValueError when text has no digit, more than one dot, or another character.
ParseFloat(text) ==
    LET dots == {i \in 1..Len(text) : text[i] = "."}
        others == {i \in 1..Len(text) : text[i] \notin Digits \cup {"."}}
    IN  IF others # {} \/ Cardinality(dots) > 1 \/ Len(text) = Cardinality(dots)
        THEN Raise("ValueError", QInt(0))
        ELSE LET d == IF dots = {} THEN Len(text) + 1 ELSE CHOOSE i \in dots : TRUE
                 frac == SubSeq(text, d + 1, Len(text))
                 all == SubSeq(text, 1, d - 1) \o frac
                 z == TrailingZeros(all)
             IN  Ok(Norm(DigitsValue(SubSeq(all, 1, Len(all) - z)), 1,
                         z - Len(frac)))

\* Python: x / y, which raises ZeroDivisionError when y is zero.
Div(x, y) ==
    IF y.num = 0 THEN Raise("ZeroDivisionError", QInt(0)) ELSE Ok(QDiv(x, y))

\* Python: round(x, 2), ties to even.  A multiple of 1/100 is its own
\* rounding.
Round2(x) ==
    IF x.den = 1 /\ x.exp >= 0 - 2 THEN x
    ELSE LET y == QMul(x, QInt(100))
             f == Floor(y)
             r == QSub(y, QInt(f))
             half == Q(1, 2)
         IN  IF r = half
             THEN Q(IF f % 2 = 0 THEN f ELSE f + 1, 100)
             ELSE Q(Floor(QAdd(y, half)), 100)

\* Python: int(x), truncation toward zero.
Trunc(x) == IF x.num >= 0 THEN Floor(x) ELSE 0 - Floor(QNeg(x))

\* Python: x // n
FloorDiv(x, n) == QInt(Floor(QDiv(x, n)))

\* C: fmod(x, n), the remainder with the sign of x, which floats give
\* exactly.
Fmod(x, n) ==
    LET q == Trunc(QDiv(x, n))
    IN  IF q = 0 THEN x ELSE QSub(x, QMul(n, QInt(q)))

\* a * 10^j <= b for naturals, without forming a * 10^j.
RECURSIVE LeScaled(_, _, _)
LeScaled(a, j, b) == IF j = 0 THEN a <= b ELSE LeScaled(a, j - 1, b \div 10)

\* |t| <= 2^-48 (3.55271367 * 10^-15), half the distance between 60.0 and
\* the double below it: for such a negative t the float sum 60.0 + t is 60.0.
AtMostHalfUlp(t) ==
    LET j == t.exp + 23
    IN  IF j < 0 THEN TRUE
        ELSE IF j > 18 THEN FALSE
        ELSE LeScaled(Abs(t.num), j, 355271367 * t.den)

\* Python: int(x % n) for n = 60.0.  x % n is fmod(x, n), to which n is
\* added when it is negative; the sum is a float, so it is n itself when
\* fmod(x, n) is within half a unit in the last place of zero.
IntMod(x, n) ==
    LET t == Fmod(x, n)
    IN  IF t.num >= 0 THEN Trunc(t)
        ELSE IF AtMostHalfUlp(t) THEN Trunc(n)
        ELSE Trunc(n) + Floor(t)

\* ------------------------------------------------------- regular expressions
DurationWord == <<"D", "u", "r", "a", "t", "i", "o", "n">>
DurationPrefix == <<"D", "u", "r", "a", "t", "i", "o", "n", ":", " ">>
TimePrefix == <<"t", "i", "m", "e", "=">>
SpeedPrefix == <<"s", "p", "e", "e", "d", "=">>

\* Length of the match of \d+.\d+ at position p of s, 0 when there is none:
\* the first \d+ is greedy and gives digits back until one character (any)
\* and one more digit follow it.
AnySepNumberLen(s, p) ==
    LET n == RunLen(s, p, Digits)
        K == {k \in 1..n : p + k <= Len(s) /\ RunLen(s, p + k + 1, Digits) >= 1}
    IN  IF K = {} THEN 0
        ELSE SetMax(K) + 1 + RunLen(s, p + SetMax(K) + 1, Digits)

\* Length of the match of \d+\.\d+ at position p of s, 0 when there is none.
DotNumberLen(s, p) ==
    LET n == RunLen(s, p, Digits)
        m == RunLen(s, p + n + 1, Digits)
    IN  IF n >= 1 /\ CharAt(s, p + n) = "." /\ m >= 1 THEN n + 1 + m ELSE 0

\* The groups of <prefix>(\d+):(\d+):(<seconds>) matched at position i of s,
\* None when the pattern does not match there.  The third group is \d+.\d+
\* if anySep, \d+\.\d+ otherwise.
ClockAt(s, i, prefix, anySep) ==
    LET p1 == i + Len(prefix)
        n1 == RunLen(s, p1, Digits)
        p2 == p1 + n1 + 1
        n2 == RunLen(s, p2, Digits)
        p3 == p2 + n2 + 1
        n3 == IF anySep THEN AnySepNumberLen(s, p3) ELSE DotNumberLen(s, p3)
    IN  IF /\ StartsAt(s, i, prefix)
           /\ n1 >= 1 /\ CharAt(s, p1 + n1) = ":"
           /\ n2 >= 1 /\ CharAt(s, p2 + n2) = ":"
           /\ n3 >= 1
        THEN <<SubSeq(s, p1, p1 + n1 - 1), SubSeq(s, p2, p2 + n2 - 1),
               SubSeq(s, p3, p3 + n3 - 1)>>
        ELSE None

\* speed=([\d.]+)x at position i of s.
SpeedAt(s, i) ==
    LET p == i + Len(SpeedPrefix)
        n == RunLen(s, p, Digits \cup {"."})
    IN  IF StartsAt(s, i, SpeedPrefix) /\ n >= 1 /\ CharAt(s, p + n) = "x"
        THEN <<SubSeq(s, p, p + n - 1)>>
        ELSE None

DurationAt(s, i) == ClockAt(s, i, DurationPrefix, TRUE)
TimeAt(s, i) == ClockAt(s, i, TimePrefix, FALSE)

\* re.search(r"Duration: (\d+):(\d+):(\d+.\d+)", line): the match at the
\* leftmost position that has one.
SearchDuration(line) ==
    LET I == {i \in 1..Len(line) : DurationAt(line, i) # None}
    IN  IF I = {} THEN None ELSE DurationAt(line, SetMin(I))

\* re.search(r"time=(\d+):(\d+):(\d+\.\d+)", line)
SearchTime(line) ==
    LET I == {i \in 1..Len(line) : TimeAt(line, i) # None}
    IN  IF I = {} THEN None ELSE TimeAt(line, SetMin(I))

\* re.search(r"speed=([\d.]+)x", line)
SearchSpeed(line) ==
    LET I == {i \in 1..Len(line) : SpeedAt(line, i) # None}
    IN  IF I = {} THEN None ELSE SpeedAt(line, SetMin(I))

\* ------------------------------------------------------------------ monitor
\* hours, minutes, seconds = map(float, match.groups());
\* hours * 3600 + minutes * 60 + seconds
ClockSeconds(groups) ==
    LET h == ParseFloat(groups[1])
        m == ParseFloat(groups[2])
        s == ParseFloat(groups[3])
        t == QAdd(QAdd(QMul(h.val, QInt(3600)), QMul(m.val, QInt(60))), s.val)
    IN  IF h.ok /\ m.ok /\ s.ok THEN Ok(t) ELSE Raise("ValueError", QInt(0))

\* A test of duration against None only.
TruthyNotNone(duration) == duration # None

\* Python truth value of duration: None and 0.0 are false.
Truthy(duration) == duration # None /\ duration[1].num # 0

\* DurationAfter with a pattern that lost its "Duration: " prefix, so that
\* any clock on a line is taken for the duration.
AnyClockAt(s, i) == ClockAt(s, i, <<>>, TRUE)

DurationAfterUnanchored(line, duration) ==
    IF duration = None
    THEN LET I == {i \in 1..Len(line) : AnyClockAt(line, i) # None}
             match == IF I = {} THEN None ELSE AnyClockAt(line, SetMin(I))
         IN  IF match = None THEN Ok(duration)
             ELSE LET t == ClockSeconds(match)
                  IN  IF t.ok THEN Ok(Some(t.val)) ELSE Raise(t.err, duration)
    ELSE Ok(duration)

\* DurationAfter without the test "duration is None": the latest Duration
\* line wins.
DurationAfterLatest(line, duration) ==
    IF Contains(line, DurationWord)
    THEN LET match == SearchDuration(line)
         IN  IF match = None THEN Ok(duration)
             ELSE LET t == ClockSeconds(match)
                  IN  IF t.ok THEN Ok(Some(t.val)) ELSE Raise(t.err, duration)
    ELSE Ok(duration)

\* The duration after a line: set from the first line that matches while it
\* is None.
DurationAfter(line, duration) ==
    IF Contains(line, DurationWord) /\ duration = None
    THEN LET match == SearchDuration(line)
         IN  IF match = None THEN Ok(duration)
             ELSE LET t == ClockSeconds(match)
                  IN  IF t.ok THEN Ok(Some(t.val)) ELSE Raise(t.err, duration)
    ELSE Ok(duration)

\* percentage = (elapsed / duration) * 100
Percentage(elapsed, duration) ==
    LET r == Div(elapsed, duration)
    IN  IF r.ok THEN Ok(QMul(r.val, QInt(100))) ELSE r

\* Eta without the test of speed.
EtaUnguarded(duration, elapsed, speed) == Div(QSub(duration, elapsed), speed)

\* Eta that is 0 once the elapsed time has passed the duration.
EtaClamped(duration, elapsed, speed) ==
    IF speed.num > 0 /\ QSub(duration, elapsed).num >= 0
    THEN Div(QSub(duration, elapsed), speed)
    ELSE Ok(QInt(0))

\* eta = (duration - elapsed) / speed if speed > 0 else 0
Eta(duration, elapsed, speed) ==
    IF speed.num > 0 THEN Div(QSub(duration, elapsed), speed) ELSE Ok(QInt(0))

\* eta_minutes = int(eta // 60)
EtaMinutes(eta) == Trunc(FloorDiv(eta, QInt(60)))

\* eta_seconds = int(eta % 60)
EtaSeconds(eta) == IntMod(eta, QInt(60))

\* f"{eta_minutes}m {eta_seconds}s"
EtaText(eta) ==
    IntStr(EtaMinutes(eta)) \o <<"m", " ">> \o IntStr(EtaSeconds(eta)) \o <<"s">>

\* speed = float(speed_match.group(1)) if speed_match else 1.0
SpeedOf(line) ==
    LET speed_match == SearchSpeed(line)
    IN  IF speed_match # None THEN ParseFloat(speed_match[1]) ELSE Ok(QInt(1))

\* The keyword arguments of the callback: percentage=round(percentage, 2),
\* speed=round(speed, 2), eta=f"{eta_minutes}m {eta_seconds}s".
Sample(percentage, speed, eta) ==
    [percentage |-> Round2(percentage), speed |-> Round2(speed),
     eta |-> EtaText(eta)]

\* The body of "if 'time=' in line" up to the callback: Some(keyword
\* arguments) when the line gives progress, None when it gives none, or the
\* exception a statement raises.
Progress(line, duration) ==
    IF ~Contains(line, TimePrefix) THEN Ok(None)
    ELSE LET match == SearchTime(line)
         IN  IF match = None \/ ~Truthy(duration) THEN Ok(None)
             ELSE LET elapsed == ClockSeconds(match)
                      percentage == Percentage(elapsed.val, duration[1])
                      speed == SpeedOf(line)
                      eta == Eta(duration[1], elapsed.val, speed.val)
                  IN  IF ~elapsed.ok THEN Raise(elapsed.err, None)
                      ELSE IF ~percentage.ok THEN Raise(percentage.err, None)
                      ELSE IF ~speed.ok THEN Raise(speed.err, None)
                      ELSE IF ~eta.ok THEN Raise(eta.err, None)
                      ELSE Ok(Some(Sample(percentage.val, speed.val, eta.val)))

\* ---------------------------------------------------------------- the job
VARIABLES
    type,         \* argument type
    inputvideo,   \* argument inputvideo
    sub,          \* argument sub
    output,       \* argument output, rewritten for type 1
    hasCallback,  \* progress_callback is not None
    files,        \* the paths that exist on the file system
    pc,           \* where mergeSub is: check, plan, launch, read, wait, done
    command,      \* the argument list built for the process
    proc,         \* the external process: none, running, exited
    returncode,   \* its exit code once exited
    stderrOpen,   \* the process still holds its diagnostic stream open
    pipe,         \* lines written to the stream and not yet read
    emitted,      \* number of lines written so far
    line,         \* the loop variable: the line read last, <<>> before the first
    duration,     \* local duration: None or Some(seconds)
    calls,        \* the callback invocations so far, in order
    result,       \* the value returned: "none" until mergeSub returns
    error,        \* the exception "except Exception" caught, "none" if none
    launches      \* processes started by this job

vars == <<type, inputvideo, sub, output, hasCallback, files, pc, command, proc,
          returncode, stderrOpen, pipe, emitted, line, duration, calls,
          result, error, launches>>

inputs == <<type, inputvideo, sub, hasCallback, files>>
process == <<proc, returncode, stderrOpen>>
monitor == <<line, duration, calls>>

DefaultOutput == <<"o", "u", "t", "p", "u", "t", ".", "m", "p", "4">>
VideoPath == <<"v", "i", "d", "e", "o", ".", "m", "p", "4">>
SubPath == <<"s", "u", "b", "t", "i", "t", "l", "e", "s", ".", "s", "r", "t">>

\* The values of type tried: the five valid ones and one on either side.
Types == 0..6

\* The values of type a whole job is run with: the first and the last valid
\* one and the invalid one next to each.  Nothing after the command is built
\* reads type.
JobTypes == {0, 1, 5, 6}

\* Diagnostic lines the external process may write.
\* Duration: 00:10:00.00
LineDuration600 ==
    <<"D", "u", "r", "a", "t", "i", "o", "n", ":", " ", "0", "0", ":", "1", "0", ":", "0", "0", ".", "0", "0">>
\* Duration: 00:05:00.00
LineDuration300 ==
    <<"D", "u", "r", "a", "t", "i", "o", "n", ":", " ", "0", "0", ":", "0", "5", ":", "0", "0", ".", "0", "0">>
\* Duration: 00:00:00.00
LineDurationZero ==
    <<"D", "u", "r", "a", "t", "i", "o", "n", ":", " ", "0", "0", ":", "0", "0", ":", "0", "0", ".", "0", "0">>
\* Duration: 00:10:00:00
LineDurationBad ==
    <<"D", "u", "r", "a", "t", "i", "o", "n", ":", " ", "0", "0", ":", "1", "0", ":", "0", "0", ":", "0", "0">>
\* time=00:05:00.00 speed=2.0x
LineHalfFast ==
    <<"t", "i", "m", "e", "=", "0", "0", ":", "0", "5", ":", "0", "0", ".", "0", "0", " ", "s", "p", "e", "e", "d", "=", "2", ".", "0", "x">>
\* time=00:01:40.00
LineNoSpeed ==
    <<"t", "i", "m", "e", "=", "0", "0", ":", "0", "1", ":", "4", "0", ".", "0", "0">>
\* time=00:05:00.00 speed=0.0x
LineStalled ==
    <<"t", "i", "m", "e", "=", "0", "0", ":", "0", "5", ":", "0", "0", ".", "0", "0", " ", "s", "p", "e", "e", "d", "=", "0", ".", "0", "x">>
\* time=00:15:00.00 speed=1.234x
LineOverrun ==
    <<"t", "i", "m", "e", "=", "0", "0", ":", "1", "5", ":", "0", "0", ".", "0", "0", " ", "s", "p", "e", "e", "d", "=", "1", ".", "2", "3", "4", "x">>
\* time=00:05:00.00 speed=.x
LineBadSpeed ==
    <<"t", "i", "m", "e", "=", "0", "0", ":", "0", "5", ":", "0", "0", ".", "0", "0", " ", "s", "p", "e", "e", "d", "=", ".", "x">>
\* time=00:10:00.01 speed=2.0x
LineBarelyOver ==
    <<"t", "i", "m", "e", "=", "0", "0", ":", "1", "0", ":", "0", "0", ".", "0", "1", " ", "s", "p", "e", "e", "d", "=", "2", ".", "0", "x">>
\* time=00:10:00.01 speed=10000000000000x
LineHugeSpeed ==
    <<"t", "i", "m", "e", "=", "0", "0", ":", "1", "0", ":", "0", "0", ".", "0", "1", " ", "s", "p", "e", "e", "d", "=", "1", "0", "0", "0", "0", "0", "0", "0", "0", "0", "0", "0", "0", "0", "x">>
\* time=N/A
LineNoise ==
    <<"t", "i", "m", "e", "=", "N", "/", "A">>

Lines ==
    {LineDuration600,
     LineDuration300,
     LineDurationZero,
     LineDurationBad,
     LineHalfFast,
     LineNoSpeed,
     LineStalled,
     LineOverrun,
     LineBarelyOver,
     LineHugeSpeed,
     LineBadSpeed,
     LineNoise}

\* Output paths for the planner: up to MaxSegs segments put together.
Segments == {<<"a">>, <<"/", "b">>, DotMp4, DotMkv, <<".", "a", "v", "i">>}

RECURSIVE Paths(_)
Paths(n) ==
    IF n = 0 THEN {<<>>}
    ELSE Paths(n - 1) \cup {p \o s : p \in Paths(n - 1), s \in Segments}

Init ==
    /\ type \in JobTypes
    /\ inputvideo = VideoPath
    /\ sub = SubPath
    /\ output = DefaultOutput
    /\ hasCallback \in BOOLEAN
    /\ files \in SUBSET {VideoPath, SubPath}
    /\ pc = "check"
    /\ command = <<>>
    /\ proc = "none"
    /\ returncode = 0
    /\ stderrOpen = FALSE
    /\ pipe = <<>>
    /\ emitted = 0
    /\ line = <<>>
    /\ duration = None
    /\ calls = <<>>
    /\ result = "none"
    /\ error = "none"
    /\ launches = 0

\* return <value>
Return(value) ==
    /\ result' = (IF value THEN "True" ELSE "False")
    /\ pc' = "done"

\* except Exception as e: print(...); return False
Except(e) ==
    /\ error' = e
    /\ Return(FALSE)

\* os.path.exists(path)
Exists(path) == path \in files

\* CheckFiles without the check of sub.
CheckFilesVideoOnly ==
    /\ pc = "check"
    /\ IF ~Exists(inputvideo)
       THEN Return(FALSE)
       ELSE pc' = "plan" /\ result' = result
    /\ UNCHANGED <<inputs, output, command, process, pipe, emitted, monitor,
                   error, launches>>

\* The two existence checks at the head of mergeSub.
CheckFiles ==
    /\ pc = "check"
    /\ IF ~Exists(inputvideo) \/ ~Exists(sub)
       THEN Return(FALSE)
       ELSE pc' = "plan" /\ result' = result
    /\ UNCHANGED <<inputs, output, command, process, pipe, emitted, monitor,
                   error, launches>>

\* BuildCommand whose else branch falls back to type 3 instead of returning.
BuildCommandFallback ==
    /\ pc = "plan"
    /\ output' = OutputFor(type, output)
    /\ command' = Command(IF type \in ValidTypes THEN type ELSE 3, inputvideo,
                          sub, output')
    /\ pc' = "launch"
    /\ result' = result
    /\ UNCHANGED <<inputs, process, pipe, emitted, monitor, error, launches>>

\* The if/elif chain that builds command; else: return False.
BuildCommand ==
    /\ pc = "plan"
    /\ IF type \in ValidTypes
       THEN /\ output' = OutputFor(type, output)
            /\ command' = Command(type, inputvideo, sub, output')
            /\ pc' = "launch"
            /\ result' = result
       ELSE /\ Return(FALSE)
            /\ UNCHANGED <<command, output>>
    /\ UNCHANGED <<inputs, process, pipe, emitted, monitor, error, launches>>

\* Launch with Popen outside the try block: its OSError leaves mergeSub
\* instead of being turned into False.
LaunchOutsideTry ==
    /\ pc = "launch"
    /\ \E started \in BOOLEAN :
         IF started
         THEN /\ proc' = "running"
              /\ stderrOpen' = TRUE
              /\ launches' = launches + 1
              /\ duration' = None
              /\ pc' = "read"
              /\ UNCHANGED <<result, error>>
         ELSE /\ error' = "OSError"
              /\ result' = "raised"
              /\ pc' = "done"
              /\ UNCHANGED <<proc, stderrOpen, launches, duration>>
    /\ UNCHANGED <<inputs, output, command, returncode, pipe, emitted, line,
                   calls>>

\* subprocess.Popen(command, stderr=PIPE): the process starts, or Popen
\* raises OSError.  Then duration = None.
Launch ==
    /\ pc = "launch"
    /\ \E started \in BOOLEAN :
         IF started
         THEN /\ proc' = "running"
              /\ stderrOpen' = TRUE
              /\ launches' = launches + 1
              /\ duration' = None
              /\ pc' = "read"
              /\ UNCHANGED <<result, error>>
         ELSE /\ Except("OSError")
              /\ UNCHANGED <<proc, stderrOpen, launches, duration>>
    /\ UNCHANGED <<inputs, output, command, returncode, pipe, emitted, line,
                   calls>>

\* The external process writes one line to its diagnostic stream, while
\* mergeSub holds the read end.
Emit ==
    /\ proc = "running" /\ stderrOpen /\ pc = "read"
    /\ emitted < MaxLines /\ Len(pipe) < PipeCapacity
    /\ \E text \in Lines : pipe' = Append(pipe, text)
    /\ emitted' = emitted + 1
    /\ UNCHANGED <<inputs, output, pc, command, process, monitor, result,
                   error, launches>>

\* The external process closes its diagnostic stream and keeps running.
CloseStderr ==
    /\ proc = "running" /\ stderrOpen
    /\ stderrOpen' = FALSE
    /\ UNCHANGED <<inputs, output, pc, command, proc, returncode, pipe, emitted,
                   monitor, result, error, launches>>

\* The external process exits.
Exit ==
    /\ proc = "running"
    /\ proc' = "exited"
    /\ stderrOpen' = FALSE
    /\ returncode' \in 0..MaxExitCode
    /\ UNCHANGED <<inputs, output, pc, command, pipe, emitted, monitor, result,
                   error, launches>>

\* ReadLine that puts the new invocation in front of the earlier ones.
ReadLinePrepend ==
    /\ pc = "read" /\ pipe # <<>>
    /\ pipe' = Tail(pipe)
    /\ line' = Head(pipe)
    /\ LET d == DurationAfter(Head(pipe), duration)
           p == Progress(Head(pipe), d.val)
       IN  /\ duration' = d.val
           /\ IF ~d.ok THEN Except(d.err) /\ calls' = calls
              ELSE IF ~p.ok THEN Except(p.err) /\ calls' = calls
              ELSE IF p.val = None \/ ~hasCallback
              THEN UNCHANGED <<pc, result, error, calls>>
              ELSE /\ calls' = <<p.val[1]>> \o calls
                   /\ \E raised \in BOOLEAN :
                        IF raised THEN Except("callback")
                        ELSE UNCHANGED <<pc, result, error>>
    /\ UNCHANGED <<inputs, output, command, process, emitted, launches>>

\* One iteration of "for line in process.stderr".  An exception raised in
\* the body (by a statement or by the callback) reaches "except Exception".
ReadLine ==
    /\ pc = "read" /\ pipe # <<>>
    /\ pipe' = Tail(pipe)
    /\ line' = Head(pipe)
    /\ LET d == DurationAfter(Head(pipe), duration)
           p == Progress(Head(pipe), d.val)
       IN  /\ duration' = d.val
           /\ IF ~d.ok THEN Except(d.err) /\ calls' = calls
              ELSE IF ~p.ok THEN Except(p.err) /\ calls' = calls
              ELSE IF p.val = None \/ ~hasCallback
              THEN UNCHANGED <<pc, result, error, calls>>
              ELSE /\ calls' = Append(calls, p.val[1])
                   /\ \E raised \in BOOLEAN :
                        IF raised THEN Except("callback")
                        ELSE UNCHANGED <<pc, result, error>>
    /\ UNCHANGED <<inputs, output, command, process, emitted, launches>>

\* The stream is at its end: the for loop finishes, process.wait() is next.
EndOfStream ==
    /\ pc = "read" /\ pipe = <<>> /\ ~stderrOpen
    /\ pc' = "wait"
    /\ UNCHANGED <<inputs, output, command, process, pipe, emitted, monitor,
                   result, error, launches>>

\* Wait that reports completion to the callback before it returns.
WaitFinalCall ==
    /\ pc = "wait" /\ proc = "exited"
    /\ Return(returncode = 0)
    /\ calls' = IF hasCallback
                THEN Append(calls, [percentage |-> QInt(100), speed |-> QInt(1),
                                    eta |-> <<"0", "m", " ", "0", "s">>])
                ELSE calls
    /\ UNCHANGED <<inputs, output, command, process, pipe, emitted, line,
                   duration, error, launches>>

\* Wait that starts the command again after a non-zero return code.
WaitRetry ==
    /\ pc = "wait" /\ proc = "exited"
    /\ IF returncode = 0
       THEN Return(TRUE)
       ELSE pc' = "launch" /\ result' = result
    /\ UNCHANGED <<inputs, output, command, process, pipe, emitted, monitor,
                   error, launches>>

\* Wait that reports success whatever the return code.
WaitIgnoresCode ==
    /\ pc = "wait" /\ proc = "exited"
    /\ Return(TRUE)
    /\ UNCHANGED <<inputs, output, command, process, pipe, emitted, monitor,
                   error, launches>>

\* process.wait() returns once the process has exited; the return code
\* decides the result.
Wait ==
    /\ pc = "wait" /\ proc = "exited"
    /\ Return(returncode = 0)
    /\ UNCHANGED <<inputs, output, command, process, pipe, emitted, monitor,
                   error, launches>>

Next ==
    \/ CheckFiles
    \/ BuildCommand
    \/ Launch
    \/ Emit
    \/ CloseStderr
    \/ Exit
    \/ ReadLine
    \/ EndOfStream
    \/ Wait

Spec == Init /\ [][Next]_vars

\* The steps of mergeSub other than the loop body.
Job == CheckFiles \/ BuildCommand \/ Launch \/ EndOfStream \/ Wait

\* The job under scheduling: the interpreter keeps running mergeSub (weak
\* fairness of its steps) and the process is one that eventually exits,
\* which closes its stderr.  The last conjunct is WF_vars(ReadLine) written
\* out: ReadLine is enabled exactly when a line is waiting in the pipe.
SpecFair ==
    /\ Spec
    /\ WF_vars(Job)
    /\ WF_vars(Exit)
    /\ ([]<>~(pc = "read" /\ pipe # <<>>) \/ []<><<ReadLine>>_vars)

\* The planner alone: mergeSub entered with both files present, for every
\* type and every output path of Paths(MaxSegs), run up to the built command.
InitPlan ==
    /\ type \in Types
    /\ inputvideo = VideoPath
    /\ sub = SubPath
    /\ output \in Paths(MaxSegs)
    /\ hasCallback = FALSE
    /\ files = {VideoPath, SubPath}
    /\ pc = "plan"
    /\ command = <<>>
    /\ proc = "none"
    /\ returncode = 0
    /\ stderrOpen = FALSE
    /\ pipe = <<>>
    /\ emitted = 0
    /\ line = <<>>
    /\ duration = None
    /\ calls = <<>>
    /\ result = "none"
    /\ error = "none"
    /\ launches = 0

SpecPlan == InitPlan /\ [][BuildCommand]_vars

\* ================================================================== claims
Last(seq) == seq[Len(seq)]

\* The step is one iteration of the loop over the diagnostic stream; the
\* line it reads is Head(pipe).
ReadStep == pc = "read" /\ pipe # <<>> /\ pipe' = Tail(pipe)

HasTimeMarker(l) == l # <<>> /\ SearchTime(l) # None
ElapsedOf(l) == ClockSeconds(SearchTime(l)).val

\* The line has a duration marker that parses.
DurationParsed(l) ==
    SearchDuration(l) # None /\ ClockSeconds(SearchDuration(l)).ok

QLe(x, y) == QSub(x, y).num <= 0

\* y is x rounded to two decimals: a multiple of 1/100 at most 1/200 from x.
RoundedTo2(y, x) ==
    /\ y.den = 1 /\ y.exp >= 0 - 2
    /\ QLe(QSub(y, x), Q(1, 200))
    /\ QLe(QSub(x, y), Q(1, 200))

\* "<m>m <s>s"
MinSec(m, s) == IntStr(m) \o <<"m", " ">> \o IntStr(s) \o <<"s">>

\* C1: when the line read last has a time= marker with elapsed time E, a
\* callback was given, a duration D > 0 is known and the speed S is the
\* line's speed= value (1.0 without a speed marker), the last invocation of
\* the callback has percentage = E/D*100 rounded to 2 decimals, speed = S
\* rounded to 2 decimals and, when S > 0, eta = "<m>m <s>s" with
\* m = floor(((D-E)/S)/60) and s = floor(((D-E)/S) mod 60).  Duration
\* 00:10:00.00 and time=00:05:00.00 speed=2.0x give (50.0, 2.0, "2m 30s").
C1_ProgressSample ==
    (hasCallback /\ HasTimeMarker(line) /\ Truthy(duration) /\ SpeedOf(line).ok) =>
        /\ calls # <<>>
        /\ LET c == Last(calls)
               E == ElapsedOf(line)
               D == duration[1]
               S == SpeedOf(line).val
               left == QDiv(QSub(D, E), S)
               m == Floor(QDiv(left, QInt(60)))
               sec == Floor(left) - 60 * m
           IN  /\ RoundedTo2(c.percentage, QMul(QDiv(E, D), QInt(100)))
               /\ RoundedTo2(c.speed, S)
               /\ S.num > 0 => c.eta = MinSec(m, sec)
        /\ (duration = Some(QInt(600)) /\ line = LineHalfFast) =>
               Last(calls) = [percentage |-> QInt(50), speed |-> QInt(2),
                              eta |-> <<"2", "m", " ", "3", "0", "s">>]

\* C2: reading a line makes no invocation of the callback if the line has
\* no time= marker, or if no duration has been parsed before it and the line
\* itself has no duration marker that parses (the duration then stays
\* unknown).
C2_NoSampleWithoutMarkers ==
    [][ReadStep =>
          /\ ~HasTimeMarker(Head(pipe)) => calls' = calls
          /\ (duration = None /\ ~DurationParsed(Head(pipe))) =>
                 (duration' = None /\ calls' = calls)]_vars

C2_Witness ==
    /\ hasCallback /\ pc = "read" /\ line = LineHalfFast
    /\ duration = None /\ calls = <<>>

\* C3: once a duration is stored it never changes.
C3_DurationSetOnce == [][duration # None => duration' = duration]_vars

C3_Witness ==
    pc = "read" /\ line = LineDuration300 /\ duration = Some(QInt(600))

C5_MissingFile ==
    (~Exists(inputvideo) \/ ~Exists(sub)) =>
        /\ pc \in {"check", "done"}
        /\ proc = "none" /\ launches = 0 /\ command = <<>>
        /\ calls = <<>>
        /\ pc = "done" => result = "False"

C5_Witness ==
    /\ pc = "done" /\ result = "False" /\ type \in ValidTypes /\ hasCallback
    /\ Exists(inputvideo) /\ ~Exists(sub)

\* C6: when the loop over the stream has finished, mergeSub returns only
\* once the process has exited, and returns True for return code 0 and
\* False for every other return code, whatever the callback was given.
C6_ResultFromExitCode ==
    [][(pc = "wait" /\ pc' # "wait") =>
          /\ pc' = "done" /\ proc = "exited"
          /\ result' = (IF returncode = 0 THEN "True" ELSE "False")]_vars

C6_Witness ==
    /\ pc = "done" /\ error = "none" /\ result = "False" /\ returncode # 0
    /\ calls # <<>>
    /\ Last(calls).percentage = QInt(100)

\* The path ends in a file extension: a dot that is neither first in the
\* file name nor last, with no dot or slash after it.
HasExtension(path) ==
    \E i \in 2..(Len(path) - 1) :
        /\ path[i] = "." /\ path[i - 1] \notin {".", "/"}
        /\ \A j \in (i + 1)..Len(path) : path[j] \notin {".", "/"}

\* C7: for type 1 and every output that has an extension, whichever it is,
\* the last element of the command built ends with ".mkv".
C7_MkvAlways ==
    [][(pc = "plan" /\ pc' = "launch" /\ type = 1 /\ HasExtension(output)) =>
          EndsWith(Last(command'), DotMkv)]_vars

\* C8: if type is none of 1..5 and both files exist, mergeSub starts no
\* process, never invokes the callback and returns False.
C8_InvalidType ==
    (type \notin ValidTypes /\ Exists(inputvideo) /\ Exists(sub)) =>
        /\ pc \in {"check", "plan", "done"}
        /\ proc = "none" /\ launches = 0 /\ command = <<>>
        /\ calls = <<>>
        /\ pc = "done" => result = "False"

C8_Witness ==
    /\ pc = "done" /\ result = "False" /\ type \notin ValidTypes /\ hasCallback
    /\ Exists(inputvideo) /\ Exists(sub)

C10_ReturnsAfterExit ==
    (pc = "done" /\ launches > 0 /\ error \in {"none", "callback"}) =>
        proc = "exited"

\* C11: the callback is invoked only by an iteration of the loop over the
\* stream: no step taken once the loop has ended (during process.wait() or
\* after mergeSub has returned) adds an invocation.
C11_NoCallAfterStreamEnd ==
    [][pc # "read" => calls' = calls]_vars

C11_Witness ==
    /\ pc = "done" /\ error = "none" /\ proc = "exited" /\ result = "True"
    /\ Len(calls) = 2

\* C12: if Popen fails, mergeSub returns False (the exception does not
\* leave it), no process runs and the callback has not been invoked.
C12_LaunchFailure ==
    [][(pc = "launch" /\ pc' # "launch" /\ proc' # "running") =>
          /\ pc' = "done" /\ result' = "False"
          /\ proc' = "none" /\ launches' = 0
          /\ calls' = <<>>]_vars

C12_Witness ==
    /\ pc = "done" /\ error = "OSError" /\ result = "False" /\ hasCallback
    /\ proc = "none" /\ calls = <<>>

\* C13: in mode 1 only the trailing extension of the output path is
\* rewritten: a path that already ends in ".mkv" is left as it is, and in a
\* path that ends in ".mp4" every ".mp4" before the last one stays.
C13_OnlyTrailingExtension ==
    [][(pc = "plan" /\ type = 1) =>
          IF EndsWith(output, DotMkv) THEN output' = output
          ELSE IF EndsWith(output, DotMp4)
          THEN output' = SubSeq(output, 1, Len(output) - Len(DotMp4)) \o DotMkv
          ELSE TRUE]_vars

\* The line read last reports an elapsed time beyond the known duration, at
\* a speed above 0, and a callback was given.
Overrun ==
    /\ hasCallback /\ HasTimeMarker(line) /\ Truthy(duration)
    /\ SpeedOf(line).ok /\ SpeedOf(line).val.num > 0
    /\ ~QLe(ElapsedOf(line), duration[1])

\* C14 as stated: when the elapsed time exceeds the duration (speed above
\* 0) the callback receives a percentage greater than 100 and a negative
\* ETA.
C14_Over100AndNegative ==
    Overrun =>
        /\ calls # <<>>
        /\ ~QLe(Last(calls).percentage, QInt(100))
        /\ Head(Last(calls).eta) = "-"

\* C14: when the elapsed time E exceeds the duration D (speed above 0) the
\* callback receives the unclamped values: the percentage is E/D*100 rounded
\* to 2 decimals, which is at least 100 and is greater than 100 when E/D*100
\* is above 100.005, and the ETA text has negative minutes.
C14_Unclamped ==
    Overrun =>
        /\ calls # <<>>
        /\ LET c == Last(calls)
               exact == QMul(QDiv(ElapsedOf(line), duration[1]), QInt(100))
           IN  /\ RoundedTo2(c.percentage, exact)
               /\ QLe(QInt(100), c.percentage)
               /\ ~QLe(exact, Q(20001, 200)) => ~QLe(c.percentage, QInt(100))
               /\ Head(c.eta) = "-"

C14_Witness ==
    /\ hasCallback /\ line = LineOverrun /\ duration = Some(QInt(600))
    /\ calls # <<>>
    /\ Last(calls).percentage = QInt(150)
    /\ Last(calls).eta = <<"-", "5", "m", " ", "5", "6", "s">>

\* C15: Popen is called at most once in a job; once mergeSub has failed
\* (an exception was caught or False was returned) the job stays ended with
\* the result False and starts no process.
C15_LaunchedAtMostOnce ==
    [][/\ launches' <= 1
       /\ error' # "none" => (pc' = "done" /\ result' = "False")
       /\ result = "False" =>
              /\ pc' = "done" /\ result' = "False"
              /\ launches' = launches
              /\ proc' # "running" \/ proc = "running"]_vars

C15_Witness ==
    /\ pc = "done" /\ result = "False" /\ error = "none"
    /\ launches = 1 /\ proc = "exited" /\ returncode # 0

\* The argument that follows the first "-i" of a command.
FirstInput(cmd) ==
    LET i == SetMin({k \in 1..Len(cmd) : cmd[k] = <<"-", "i">>})
    IN  cmd[i + 1]

\* C17: in modes 2 to 5 the output path is left as requested and is the
\* last argument of the command; in all five modes the first -i input of
\* the command is the input video path as given.
C17_PathsUnmodified ==
    [][(pc = "plan" /\ type \in ValidTypes) =>
          /\ type \in 2..5 => (output' = output /\ Last(command') = output)
          /\ FirstInput(command') = inputvideo]_vars

C17_Witness ==
    /\ pc = "launch" /\ type = 4
    /\ EndsWith(output, DotMp4) /\ Last(command) = output
    /\ command[4] = <<"-", "i">> /\ command[5] = VideoPath

\* C18: once the first duration marker has given a duration of zero, the
\* duration stays zero whatever lines follow (later duration markers are
\* ignored), no line makes the callback be invoked, and no division by
\* zero happens.
C18_ZeroDuration ==
    [][/\ duration = Some(QInt(0)) => duration' = duration
       /\ duration' = Some(QInt(0)) =>
              (calls' = <<>> /\ error' # "ZeroDivisionError")]_vars

C18_Witness ==
    /\ duration = Some(QInt(0)) /\ hasCallback /\ line = LineHalfFast
    /\ emitted = 3 /\ pipe = <<>>
    /\ calls = <<>> /\ error = "none" /\ pc = "read"

\* C19: whenever the callback is given an ETA text for a computed ETA eta,
\* the text is "<m>m <s>s" with s in 0..59 and 60*m + s = floor(eta), that
\* is m = floor(eta) div 60 and s = floor(eta) mod 60, also when the elapsed
\* time exceeds the duration and m is negative.
C19_MinutesSeconds ==
    (hasCallback /\ HasTimeMarker(line) /\ Truthy(duration) /\ SpeedOf(line).ok) =>
        /\ calls # <<>>
        /\ LET eta == Eta(duration[1], ElapsedOf(line), SpeedOf(line).val).val
               f == Floor(eta)
           IN  Last(calls).eta = MinSec(f \div 60, f % 60)

\* C20, second part: mergeSub has no timeout, so a job that has started its
\* process (and whose callback has not raised) returns a result only after
\* the process has closed its stderr.
C20_NoReturnWhileStreamOpen ==
    (pc = "done" /\ launches > 0 /\ error # "callback") => ~stderrOpen

\* C20, first part: if the process eventually exits, closing its stderr,
\* the job eventually returns, and its result then stays as returned.
C20_EventuallyReturns ==
    <>[](pc = "done" /\ result \in {"True", "False"})

====
